---- MODULE Spec2Model ----
(***************************************************************************)
(* State-machine model of the McMaster catalog scraper                     *)
(* (src/main.py, src/src/scraper/scraper.py).                              *)
(*                                                                         *)
(* The browser, the catalog site and the document store are the            *)
(* environment: a page is a record of the elements the probes of the       *)
(* scraper look for, the outcome of the 2s protection-indicator probe, of  *)
(* a store insert and of a skip-list file write are chosen by the          *)
(* environment at the step that performs them.                             *)
(***************************************************************************)
EXTENDS Integers, Sequences, FiniteSets, TLC

VARIABLES
    things_to_skip,  \* the module-global skip list (a Python list)
    file,            \* the durable file src/config/skip_list.json
    saveFaults,      \* number of file writes that failed so far
    phase,           \* position of main.py: main, running, exited, gaveup, uncaught, crashed
    db,              \* the documents of the collection, in insertion order
    storeFaults,     \* number of inserts that failed so far
    tabs,            \* driver.window_handles: the url opened in each tab
    cur,             \* index in tabs of the driver's current window
    driver,          \* number of live browser sessions
    stack,           \* call stack of run() and the handlers it calls
    exc,             \* exception in flight: none, AR (AccessRestrictedError), Err
    attempt,         \* number of sessions main.py has started
    leaves,          \* the <li> leaves the root page lists, in document order
    typRuns,         \* observer: runs of handle_types_index_page started on its own
    typBase,         \* observer: number of documents when the latest such run began
    failedCover,     \* observer: <<product, key>> for keys covering a product
                     \* whose insert failed and that is not stored since
    slept,           \* seconds main.py has slept since run() last raised to it
    \* save_skip_list / load_skip_list on their own
    rtList,          \* the list handed to save_skip_list
    disk,            \* the characters of the durable file
    loaded,          \* what load_skip_list returned
    rtpc,            \* idle, start, saved, loaded
    \* extract_data_from_table_ele on its own
    table,           \* the <table> element handed to the extractor
    tpc,             \* idle, start, rows, done
    dimension_value, \* its locals, named as in the source
    headers,
    current_property_b,
    rowIdx,          \* index of the next body row of the for loop
    data,
    \* the table loop of product_section_scrape_data on its own
    found,           \* outcome of the wait for <table> elements
    table_elements,  \* the <table> elements of the page, in document order
    table_idx,       \* index of the next table of the for loop
    product_data,    \* product_data["data"]
    ppc              \* idle, find, tables, insert, done, raised

skipVars == <<things_to_skip, file, saveFaults>>
storeVars == <<db, storeFaults>>
tabVars == <<tabs, cur>>
rtVars == <<rtList, disk, loaded, rtpc>>
tableVars == <<table, tpc, dimension_value, headers, current_property_b, rowIdx, data>>
productVars == <<found, table_elements, table_idx, product_data, ppc>>
pureVars == <<rtVars, tableVars, productVars>>
crawlVars == <<things_to_skip, file, saveFaults, phase, db, storeFaults, tabs, cur,
               driver, stack, exc, attempt, leaves, slept, typRuns, typBase,
               failedCover>>
vars == <<crawlVars, pureVars>>

(***************************************************************************)
(* Bounds of the model.                                                    *)
(***************************************************************************)
MaxLeaves == 2
MaxStoreFaults == 1
MaxSaveFaults == 1

(***************************************************************************)
(* Program constants.                                                      *)
(***************************************************************************)
max_retries == 5
retry_delay == 60

Range(s) == {s[n] : n \in DOMAIN s}

(***************************************************************************)
(* The catalog site.  A page is what the scraper's locators find on it.    *)
(***************************************************************************)
Section(cls, hasH3, h3) == [cls |-> cls, hasH3 |-> hasH3, h3 |-> h3]
Item(href, title, hasKe) == [href |-> href, title |-> title, hasKe |-> hasKe]
Group(hasH3, items) == [hasH3 |-> hasH3, items |-> items]
Tile(href, title, complete) == [href |-> href, title |-> title, complete |-> complete]

BlankPage ==
    [url |-> "", table |-> FALSE, rendered |-> FALSE, cntnr |-> FALSE,
     marker |-> FALSE, content |-> FALSE, groups |-> <<>>, tiles |-> <<>>,
     sections |-> <<>>]

ProductPageOf(url, hasTable, sections) ==
    [BlankPage EXCEPT !.url = url, !.table = hasTable, !.cntnr = TRUE,
                      !.content = TRUE, !.sections = sections]

Site(href) ==
    CASE href = "T1" ->
           ProductPageOf("T1", TRUE,
               <<Section("", TRUE, "Bolt"), Section("ap", TRUE, "Ad"),
                 Section("", TRUE, "Stud")>>)
      [] href = "T2" ->
           ProductPageOf("T2", TRUE, <<Section("", TRUE, "Nut")>>)
      [] href = "S1" ->
           [BlankPage EXCEPT !.url = "S1", !.rendered = TRUE, !.cntnr = TRUE,
                !.tiles = <<Tile("P1", "Washers", TRUE),
                            Tile("B1", "Broken", FALSE),
                            Tile("Y1", "Pins", TRUE),
                            Tile("U1", "Misc", TRUE)>>]
      [] href = "Y1" ->
           [BlankPage EXCEPT !.url = "Y1", !.cntnr = TRUE,
                !.groups = <<Group(TRUE, <<Item("P2", "Hex", TRUE),
                                           Item("P3", "Cap", TRUE)>>),
                             Group(FALSE, <<Item("P1", "Washers", TRUE)>>),
                             Group(TRUE, <<Item("P4", "", FALSE)>>)>>]
      [] href = "Y2" ->
           [BlankPage EXCEPT !.url = "Y2", !.cntnr = TRUE,
                !.groups = <<Group(TRUE, <<Item("P2", "Hex", TRUE),
                                           Item("T1", "Bolt", TRUE),
                                           Item("P6", "Stud", TRUE)>>)>>]
      [] href = "P1" ->
           ProductPageOf("P1", FALSE, <<Section("", TRUE, "Washers")>>)
      [] href = "P2" ->
           ProductPageOf("P2", TRUE, <<Section("", TRUE, "Hex")>>)
      [] href = "P3" ->
           ProductPageOf("P3r", TRUE, <<Section("", TRUE, "Cap Screw")>>)
      [] href = "P6" ->
           ProductPageOf("P6", TRUE, <<Section("", TRUE, "Stud")>>)
      [] OTHER -> BlankPage

\* A leaf of the root page: an <li> of a subcategory of one of the categories
\* run() iterates (category_eles[5::] with a non-empty h1), with the category
\* name, its own text (subcat_name2) and the href of its anchor.
Leaf(cat, name, href) == [cat |-> cat, name |-> name, href |-> href]

LeafPool ==
    {Leaf("Fastening", "Screws", "T1"), Leaf("Fastening", "Washers", "S1"),
     Leaf("Fastening", "Pins", "Y1"), Leaf("Tools", "Misc", "U1")}


\* category_name + '/' + subcat_name2
SkipItemName(l) == l.cat \o "/" \o l.name

(***************************************************************************)
(* The durable skip-list file: absent, a valid JSON array of keys, or      *)
(* bytes that are not valid JSON (empty or cut short).                     *)
(***************************************************************************)
Absent == [st |-> "absent", keys |-> <<>>]
Valid(keys) == [st |-> "valid", keys |-> keys]
Corrupt == [st |-> "corrupt", keys |-> <<>>]

\* The built-in default list; only its first entries are kept, the other
\* names are titles of no node of the modelled catalog.
default_list == <<"", "Socket Head Screws">>

\* What open(SKIP_LIST_FILE, 'w') followed by json.dump leaves in the file.
\*   ok           the array was written in full
\*   open_failed  open() raised, the file was not touched
\*   write_failed open() truncated the file and the write raised
\*   crash        the process died between the truncation and the last byte
WriteFile(list, f, outcome) ==
    CASE outcome = "ok" -> Valid(list)
      [] outcome = "open_failed" -> f
      [] OTHER -> Corrupt

\* save_skip_list: the write, every exception logged and swallowed.
save_skip_list(list, f, outcome) == WriteFile(list, f, outcome)

\* load_skip_list: <<list returned, file left behind>>.
load_skip_list(f, outcome) ==
    CASE f.st = "valid" ->
           \* open(..., 'r') or the read raising: "except Exception: return []"
           IF outcome = "ok" THEN <<f.keys, f>> ELSE <<(<<>>), f>>
      [] f.st = "absent" ->
           IF outcome = "ok" THEN <<default_list, Valid(default_list)>>
           ELSE <<(<<>>), WriteFile(default_list, f, outcome)>>
      [] OTHER -> <<(<<>>), f>>

(***************************************************************************)
(* Page probes.                                                            *)
(***************************************************************************)
\* access_restricted(): True iff the protection element became visible.
access_restricted(visible) == visible

whether_table_page_or_not(p) == p.table

whether_subcat_index_page_or_not(p) == p.rendered

whether_types_index_page_or_not(p) == Len(p.groups) > 0

whether_product_page_or_not(p) ==
    p.cntnr /\ (Len(p.groups) = 0 \/ p.marker)

\* The if/elif chain of run().
RunKind(p) ==
    IF whether_table_page_or_not(p) THEN "table"
    ELSE IF whether_subcat_index_page_or_not(p) THEN "subcat"
    ELSE IF whether_types_index_page_or_not(p) THEN "types"
    ELSE "unknown"

\* The if/elif chain of handle_subcategories_index_page().
SubKind(p) ==
    IF whether_table_page_or_not(p) THEN "table"
    ELSE IF whether_product_page_or_not(p) THEN "product"
    ELSE IF whether_types_index_page_or_not(p) THEN "types"
    ELSE "unknown"

\* db_client.find_document({"link": link})
find_document(link) == \E n \in DOMAIN db : db[n].link = link

(***************************************************************************)
(* Call stack.  A frame is one activation of run() or of a handler: the    *)
(* page whose elements it iterates, its loop indices i and j, its position *)
(* pc (loop, item, check, dispatch, call, after; enter, sec), the kind its *)
(* if/elif chain chose and the outcome ind of its protection probe.        *)
(* Elements located by a handler stay usable whichever tab is current.     *)
(***************************************************************************)
Frame(fn, href, pc, sc3) ==
    [fn |-> fn, page |-> href, i |-> 1, j |-> 1, pc |-> pc, kind |-> "",
     ind |-> "unprobed", link |-> "", sc3 |-> sc3]

Top == stack[Len(stack)]
SetTop(f) == [stack EXCEPT ![Len(stack)] = f]
Call(caller, callee) == Append(SetTop(caller), callee)

\* A handler returns normally: its caller goes on after the call.
Return ==
    LET rest == SubSeq(stack, 1, Len(stack) - 1)
    IN  IF rest = <<>> THEN rest
        ELSE [rest EXCEPT ![Len(rest)].pc = "after"]

\* Variant: the per-unit "except Exception" clauses come first and swallow
\* AccessRestrictedError with everything else.
CatchesAll(f, e) == f.fn \in {"sub", "typ"}

\* Do the except clauses around the position of frame f swallow e?
\* (the per-tile, per-group and per-item "except Exception: continue";
\*  every "except AccessRestrictedError: raise e" lets AR through)
Catches(f, e) == e = "Err" /\ f.fn \in {"sub", "typ"}

\* Where the loop of frame f goes on after a swallowed exception.
Continue(f) ==
    IF f.fn = "typ" /\ f.pc = "loop"
    THEN [f EXCEPT !.i = @ + 1, !.j = 1]
    ELSE IF f.fn = "typ" THEN [f EXCEPT !.j = @ + 1, !.pc = "item"]
    ELSE [f EXCEPT !.i = @ + 1, !.pc = "loop"]

\* open_new_tab(url): window.open and switch to window_handles[-1]
OpenTabs(url) == Append(tabs, url)

\* close_current_tab(): close the current window
CloseTabs == [n \in 1..(Len(tabs) - 1) |-> IF n < cur THEN tabs[n] ELSE tabs[n + 1]]

Running == phase = "running" /\ exc = "none" /\ stack # <<>>

(***************************************************************************)
(* Skip-list mutation: append one key, then save_skip_list.                *)
(***************************************************************************)
SaveOutcomes ==
    {"ok", "crash"} \cup
    (IF saveFaults < MaxSaveFaults THEN {"open_failed", "write_failed"} ELSE {})

AppendAndSave(key) ==
    \E o \in SaveOutcomes :
        /\ things_to_skip' = Append(things_to_skip, key)
        /\ file' = save_skip_list(Append(things_to_skip, key), file, o)
        /\ saveFaults' = IF o \in {"open_failed", "write_failed"}
                         THEN saveFaults + 1 ELSE saveFaults
        /\ phase' = IF o = "crash" THEN "crashed" ELSE phase

NoAppend == UNCHANGED <<things_to_skip, file, saveFaults, phase>>

\* The stand-alone runs of the pure functions are not in progress.
RoundTripIdle ==
    rtList = <<>> /\ disk = <<>> /\ loaded = <<>> /\ rtpc = "idle"

TableIdle ==
    /\ table = <<>> /\ tpc = "idle" /\ dimension_value = <<>> /\ headers = <<>>
    /\ current_property_b = <<>> /\ rowIdx = 0 /\ data = <<>>

ProductIdle ==
    /\ found = "idle" /\ table_elements = <<>> /\ table_idx = 0
    /\ product_data = <<>> /\ ppc = "idle"

PureIdle == RoundTripIdle /\ TableIdle /\ ProductIdle

(***************************************************************************)
(* Initial state: the module has been imported (things_to_skip loaded),    *)
(* main.py is about to start its first attempt.                            *)
(***************************************************************************)
InitialFiles == {Absent, Corrupt, Valid(<<"", "Fastening/Screws">>)}

InitialStores == {<<>>, <<[link |-> "P2", title |-> "Hex"]>>}

LeafSeqs ==
    UNION {{s \in [1..n -> LeafPool] : \A a, b \in 1..n : a # b => s[a] # s[b]}
           : n \in 1..MaxLeaves}

Init ==
    /\ \E f \in InitialFiles, o \in {"ok", "open_failed"} :
          /\ (o = "ok" \/ f.st = "absent")
          /\ things_to_skip = load_skip_list(f, o)[1]
          /\ file = load_skip_list(f, o)[2]
          /\ saveFaults = IF o = "ok" THEN 0 ELSE 1
    /\ db \in InitialStores
    /\ leaves \in LeafSeqs
    /\ storeFaults = 0
    /\ phase = "main"
    /\ tabs = <<>>
    /\ cur = 0
    /\ driver = 0
    /\ stack = <<>>
    /\ exc = "none"
    /\ attempt = 0
    /\ typRuns = 0
    /\ typBase = 0
    /\ failedCover = {}
    /\ slept = 0
    /\ PureIdle

(***************************************************************************)
(* main.py: the retry loop.                                                *)
(***************************************************************************)
\* Variant: each new scraper re-reads the skip list from the durable file.
StartSessionReload ==
    /\ phase = "main"
    /\ attempt < max_retries
    /\ attempt' = attempt + 1
    /\ phase' = "running"
    /\ driver' = driver + 1
    /\ tabs' = <<"HOME">>
    /\ cur' = 1
    /\ stack' = <<Frame("run", "HOME", "loop", "")>>
    /\ things_to_skip' = load_skip_list(file, "ok")[1]
    /\ slept' = 0
    /\ UNCHANGED <<file, saveFaults, storeVars, exc, leaves, pureVars, typRuns, typBase, failedCover>>

\* scraper = McMasterScraper(); scraper.run() up to the category loop
StartSession ==
    /\ phase = "main"
    /\ attempt < max_retries
    /\ attempt' = attempt + 1
    /\ phase' = "running"
    /\ driver' = driver + 1
    /\ tabs' = <<"HOME">>
    /\ cur' = 1
    /\ stack' = <<Frame("run", "HOME", "loop", "")>>
    /\ slept' = 0
    /\ UNCHANGED <<skipVars, storeVars, exc, leaves, pureVars, typRuns, typBase, failedCover>>

\* Variant: no break after scraper.run(), the for loop goes on to the next
\* attempt after a session that completed.
MainHandleNoBreak ==
    /\ phase = "running"
    /\ stack = <<>>
    /\ phase' = CASE exc = "none" -> IF attempt < max_retries THEN "main" ELSE "gaveup"
                  [] exc = "AR" -> IF attempt < max_retries THEN "main" ELSE "gaveup"
                  [] OTHER -> "uncaught"
    /\ exc' = "none"
    /\ slept' = IF exc = "AR" THEN retry_delay ELSE slept
    /\ UNCHANGED <<skipVars, storeVars, tabVars, driver, stack, attempt, leaves, pureVars, typRuns, typBase, failedCover>>

\* run() has returned or raised to main.py
MainHandle ==
    /\ phase = "running"
    /\ stack = <<>>
    /\ phase' = CASE exc = "none" -> "exited"
                  [] exc = "AR" -> IF attempt < max_retries THEN "main" ELSE "gaveup"
                  [] OTHER -> "uncaught"
    /\ exc' = "none"
    \* except AccessRestrictedError: del scraper; time.sleep(retry_delay)
    /\ slept' = IF exc = "AR" THEN retry_delay ELSE slept
    /\ UNCHANGED <<skipVars, storeVars, tabVars, driver, stack, attempt, leaves, pureVars, typRuns, typBase, failedCover>>

(***************************************************************************)
(* run(): the root handler.                                                *)
(***************************************************************************)
\* Variant: the leaf's tab is opened before the skip list is consulted.
RunLoopOpenFirst ==
    /\ Running
    /\ Top.fn = "run" /\ Top.pc = "loop"
    /\ IF Top.i > Len(leaves)
       THEN /\ stack' = <<>>
            /\ tabs' = <<>> /\ cur' = 0 /\ driver' = 0
       ELSE IF SkipItemName(leaves[Top.i]) \in Range(things_to_skip)
       THEN /\ tabs' = OpenTabs(leaves[Top.i].href)
            /\ cur' = Len(tabs')
            /\ stack' = SetTop([Top EXCEPT !.i = @ + 1])
            /\ UNCHANGED driver
       ELSE /\ tabs' = OpenTabs(leaves[Top.i].href)
            /\ cur' = Len(tabs')
            /\ stack' = SetTop([Top EXCEPT !.pc = "check"])
            /\ UNCHANGED driver
    /\ UNCHANGED <<skipVars, phase, storeVars, exc, attempt, leaves, slept, pureVars, typRuns, typBase, failedCover>>

RunLoop ==
    /\ Running
    /\ Top.fn = "run" /\ Top.pc = "loop"
    /\ IF Top.i > Len(leaves)
       THEN \* normal completion; finally: driver.quit()
            /\ stack' = <<>>
            /\ tabs' = <<>> /\ cur' = 0 /\ driver' = 0
       ELSE IF SkipItemName(leaves[Top.i]) \in Range(things_to_skip)
       THEN /\ stack' = SetTop([Top EXCEPT !.i = @ + 1])
            /\ UNCHANGED <<tabVars, driver>>
       ELSE /\ tabs' = OpenTabs(leaves[Top.i].href)
            /\ cur' = Len(tabs')
            /\ stack' = SetTop([Top EXCEPT !.pc = "check"])
            /\ UNCHANGED driver
    /\ UNCHANGED <<skipVars, phase, storeVars, exc, attempt, leaves, slept, pureVars, typRuns, typBase, failedCover>>

\* if self.access_restricted(): raise AccessRestrictedError(...)
\* (the same two lines in run, handle_subcategories_index_page and
\*  handle_types_index_page)
AccessCheck ==
    /\ Running
    /\ Top.pc = "check"
    /\ \E visible \in BOOLEAN :
          IF access_restricted(visible)
          THEN /\ exc' = "AR"
               /\ stack' = SetTop([Top EXCEPT !.ind = "visible"])
          ELSE /\ exc' = "none"
               /\ stack' = SetTop([Top EXCEPT !.ind = "absent", !.pc = "dispatch"])
    /\ UNCHANGED <<skipVars, phase, storeVars, tabVars, driver, attempt, leaves, slept, pureVars, typRuns, typBase, failedCover>>

\* Variant: the leaf key is appended when the handler is dispatched, before
\* the handler has run.
RunDispatchEarlyKey ==
    /\ Running
    /\ Top.fn = "run" /\ Top.pc = "dispatch"
    /\ LET kind == RunKind(Site(tabs[cur]))
           me == [Top EXCEPT !.kind = kind, !.pc = "call"]
       IN  /\ stack' =
                CASE kind = "table" -> Call(me, Frame("hpp", tabs[cur], "enter", ""))
                  [] kind = "subcat" -> Call(me, Frame("sub", tabs[cur], "loop", ""))
                  [] kind = "types" -> Call(me, Frame("typ", tabs[cur], "loop", ""))
                  [] OTHER -> SetTop([me EXCEPT !.pc = "after"])
           /\ IF kind # "unknown"
              THEN AppendAndSave(SkipItemName(leaves[Top.i]))
              ELSE NoAppend
    /\ UNCHANGED <<storeVars, tabVars, driver, exc, attempt, leaves, slept, pureVars, typRuns, typBase, failedCover>>

RunDispatch ==
    /\ Running
    /\ Top.fn = "run" /\ Top.pc = "dispatch"
    /\ LET kind == RunKind(Site(tabs[cur]))
           me == [Top EXCEPT !.kind = kind, !.pc = "call"]
       IN  stack' =
             CASE kind = "table" -> Call(me, Frame("hpp", tabs[cur], "enter", ""))
               [] kind = "subcat" -> Call(me, Frame("sub", tabs[cur], "loop", ""))
               [] kind = "types" -> Call(me, Frame("typ", tabs[cur], "loop", ""))
               [] OTHER -> SetTop([me EXCEPT !.pc = "after"])
    /\ UNCHANGED <<skipVars, phase, storeVars, tabVars, driver, exc, attempt, leaves, slept, pureVars, typRuns, typBase, failedCover>>

\* the handler returned: append the leaf key, save, close the tab
RunAfter ==
    /\ Running
    /\ Top.fn = "run" /\ Top.pc = "after"
    /\ IF Top.kind # "unknown" /\ SkipItemName(leaves[Top.i]) \notin Range(things_to_skip)
       THEN AppendAndSave(SkipItemName(leaves[Top.i]))
       ELSE NoAppend
    /\ tabs' = CloseTabs
    /\ cur' = 1
    /\ stack' = SetTop([Top EXCEPT !.i = @ + 1, !.pc = "loop", !.kind = "",
                                   !.ind = "unprobed"])
    /\ UNCHANGED <<storeVars, driver, exc, attempt, leaves, slept, pureVars, typRuns, typBase, failedCover>>

(***************************************************************************)
(* handle_subcategories_index_page()                                       *)
(***************************************************************************)
SubLoop ==
    /\ Running
    /\ Top.fn = "sub" /\ Top.pc = "loop"
    /\ LET tiles == Site(Top.page).tiles
           t == tiles[Top.i]
       IN  IF Top.i > Len(tiles)
           THEN /\ stack' = Return
                /\ UNCHANGED <<tabVars, exc>>
           ELSE IF ~t.complete
           THEN \* find_element raises NoSuchElementException
                /\ exc' = "Err"
                /\ UNCHANGED <<tabVars, stack>>
           ELSE IF t.title \in Range(things_to_skip)
           THEN /\ stack' = SetTop([Top EXCEPT !.i = @ + 1])
                /\ UNCHANGED <<tabVars, exc>>
           ELSE /\ tabs' = OpenTabs(t.href)
                /\ cur' = Len(tabs')
                /\ stack' = SetTop([Top EXCEPT !.pc = "check"])
                /\ UNCHANGED exc
    /\ UNCHANGED <<skipVars, phase, storeVars, driver, attempt, leaves, slept, pureVars, typRuns, typBase, failedCover>>

SubDispatch ==
    /\ Running
    /\ Top.fn = "sub" /\ Top.pc = "dispatch"
    /\ LET kind == SubKind(Site(tabs[cur]))
           subcat_name3 == Site(Top.page).tiles[Top.i].title
           me == [Top EXCEPT !.kind = kind, !.pc = "call"]
       IN  stack' =
             CASE kind \in {"table", "product"} ->
                    Call(me, Frame("hpp", tabs[cur], "enter", subcat_name3))
               [] kind = "types" ->
                    Call(me, Frame("typ", tabs[cur], "loop", subcat_name3))
               [] OTHER -> SetTop([me EXCEPT !.pc = "after"])
    /\ UNCHANGED <<skipVars, phase, storeVars, tabVars, driver, exc, attempt, leaves, slept, pureVars, typRuns, typBase, failedCover>>

\* Variant: the tile title is appended without the membership test.
SubAfterUnguarded ==
    /\ Running
    /\ Top.fn = "sub" /\ Top.pc = "after"
    /\ AppendAndSave(Site(Top.page).tiles[Top.i].title)
    /\ tabs' = CloseTabs
    /\ cur' = Len(tabs')
    /\ stack' = SetTop([Top EXCEPT !.i = @ + 1, !.pc = "loop", !.kind = "",
                                   !.ind = "unprobed"])
    /\ UNCHANGED <<storeVars, driver, exc, attempt, leaves, slept, pureVars, typRuns, typBase, failedCover>>

\* append the tile title, save, close the tab, switch to window_handles[-1]
SubAfter ==
    /\ Running
    /\ Top.fn = "sub" /\ Top.pc = "after"
    /\ LET subcat_name3 == Site(Top.page).tiles[Top.i].title
       IN  IF subcat_name3 \notin Range(things_to_skip)
           THEN AppendAndSave(subcat_name3)
           ELSE NoAppend
    /\ tabs' = CloseTabs
    /\ cur' = Len(tabs')
    /\ stack' = SetTop([Top EXCEPT !.i = @ + 1, !.pc = "loop", !.kind = "",
                                   !.ind = "unprobed"])
    /\ UNCHANGED <<storeVars, driver, exc, attempt, leaves, slept, pureVars, typRuns, typBase, failedCover>>

(***************************************************************************)
(* handle_types_index_page()                                               *)
(***************************************************************************)
\* head of the group loop: the group's h3 and its anchors
TypGroup ==
    /\ Running
    /\ Top.fn = "typ" /\ Top.pc = "loop"
    /\ LET groups == Site(Top.page).groups
       IN  IF Top.i > Len(groups)
           THEN /\ stack' = Return
                /\ UNCHANGED exc
           ELSE IF ~groups[Top.i].hasH3
           THEN /\ exc' = "Err"
                /\ UNCHANGED stack
           ELSE /\ stack' = SetTop([Top EXCEPT !.j = 1, !.pc = "item"])
                /\ UNCHANGED exc
    /\ UNCHANGED <<skipVars, phase, storeVars, tabVars, driver, attempt, leaves, slept, pureVars, typRuns, typBase, failedCover>>

\* one anchor of the group, up to the opening of its tab
TypItem ==
    /\ Running
    /\ Top.fn = "typ" /\ Top.pc = "item"
    /\ LET items == Site(Top.page).groups[Top.i].items
           it == items[Top.j]
       IN  IF Top.j > Len(items)
           THEN /\ stack' = SetTop([Top EXCEPT !.i = @ + 1, !.j = 1, !.pc = "loop"])
                /\ NoAppend
                /\ UNCHANGED <<tabVars, exc>>
           ELSE IF ~it.hasKe
           THEN /\ exc' = "Err"
                /\ NoAppend
                /\ UNCHANGED <<tabVars, stack>>
           ELSE IF it.title \in Range(things_to_skip)
           THEN /\ stack' = SetTop([Top EXCEPT !.j = @ + 1])
                /\ NoAppend
                /\ UNCHANGED <<tabVars, exc>>
           ELSE IF find_document(it.href)
           THEN /\ AppendAndSave(it.title)
                /\ stack' = SetTop([Top EXCEPT !.j = @ + 1])
                /\ UNCHANGED <<tabVars, exc>>
           ELSE /\ tabs' = OpenTabs(it.href)
                /\ cur' = Len(tabs')
                /\ stack' = SetTop([Top EXCEPT !.pc = "check"])
                /\ NoAppend
                /\ UNCHANGED exc
    /\ UNCHANGED <<storeVars, driver, attempt, leaves, slept, pureVars, typRuns, typBase, failedCover>>

TypDispatch ==
    /\ Running
    /\ Top.fn = "typ" /\ Top.pc = "dispatch"
    /\ stack' = Call([Top EXCEPT !.kind = "product", !.pc = "call"],
                     Frame("hpp", tabs[cur], "enter", Top.sc3))
    /\ UNCHANGED <<skipVars, phase, storeVars, tabVars, driver, exc, attempt, leaves, slept, pureVars, typRuns, typBase, failedCover>>

\* Variant: after close_current_tab the handler stays on window_handles[0].
TypAfterFirstTab ==
    /\ Running
    /\ Top.fn = "typ" /\ Top.pc = "after"
    /\ tabs' = CloseTabs
    /\ cur' = 1
    /\ stack' = SetTop([Top EXCEPT !.j = @ + 1, !.pc = "item", !.kind = "",
                                   !.ind = "unprobed"])
    /\ UNCHANGED <<skipVars, phase, storeVars, driver, exc, attempt, leaves, slept, pureVars, typRuns, typBase, failedCover>>

\* close the tab, switch to window_handles[-1]
TypAfter ==
    /\ Running
    /\ Top.fn = "typ" /\ Top.pc = "after"
    /\ tabs' = CloseTabs
    /\ cur' = Len(tabs')
    /\ stack' = SetTop([Top EXCEPT !.j = @ + 1, !.pc = "item", !.kind = "",
                                   !.ind = "unprobed"])
    /\ UNCHANGED <<skipVars, phase, storeVars, driver, exc, attempt, leaves, slept, pureVars, typRuns, typBase, failedCover>>

(***************************************************************************)
(* handle_product_page() and product_section_scrape_data()                 *)
(***************************************************************************)
HppEnter ==
    /\ Running
    /\ Top.fn = "hpp" /\ Top.pc = "enter"
    /\ LET p == Site(tabs[cur])
       IN  IF ~p.content
           THEN \* wait.until(ProdPageContent) times out
                /\ exc' = "Err"
                /\ UNCHANGED stack
           ELSE IF ~p.cntnr
           THEN \* "Failed to locate #PageCntnr": return
                /\ stack' = Return
                /\ UNCHANGED exc
           ELSE /\ stack' = SetTop([Top EXCEPT !.pc = "sec", !.link = p.url,
                                               !.page = tabs[cur]])
                /\ UNCHANGED exc
    /\ UNCHANGED <<skipVars, phase, storeVars, tabVars, driver, attempt, leaves, slept, pureVars, typRuns, typBase, failedCover>>

\* The skip-list keys that cover the product of the section being scraped:
\* its title, the enclosing subcategory-3 tile title, the enclosing
\* category/subcat2 key.
CoverKeys(title) ==
    {title}
    \cup {Site(stack[n].page).tiles[stack[n].i].title :
            n \in {m \in DOMAIN stack : stack[m].fn = "sub"}}
    \cup {SkipItemName(leaves[stack[n].i]) :
            n \in {m \in DOMAIN stack : stack[m].fn = "run"}}

InsertOutcomes ==
    {TRUE} \cup (IF storeFaults < MaxStoreFaults THEN {FALSE} ELSE {})

\* one <section> of #PageCntnr
HppSection ==
    /\ Running
    /\ Top.fn = "hpp" /\ Top.pc = "sec"
    /\ LET sections == Site(Top.page).sections
           sec == sections[Top.i]
       IN  IF Top.i > Len(sections)
           THEN /\ stack' = Return
                /\ NoAppend
                /\ UNCHANGED <<storeVars, exc, failedCover>>
           ELSE IF sec.cls = "ap"
           THEN /\ stack' = SetTop([Top EXCEPT !.i = @ + 1])
                /\ NoAppend
                /\ UNCHANGED <<storeVars, exc, failedCover>>
           ELSE IF ~sec.hasH3
           THEN /\ exc' = "Err"
                /\ NoAppend
                /\ UNCHANGED <<storeVars, stack, failedCover>>
           ELSE \E inserted \in InsertOutcomes :
                  IF ~inserted
                  THEN \* db_client.insert_document raises
                       /\ exc' = "Err"
                       /\ storeFaults' = storeFaults + 1
                       /\ failedCover' = failedCover \cup
                            {[prod |-> <<Top.link, sec.h3>>, key |-> k] :
                               k \in CoverKeys(sec.h3) \ Range(things_to_skip)}
                       /\ NoAppend
                       /\ UNCHANGED <<db, stack>>
                  ELSE /\ db' = Append(db, [link |-> Top.link, title |-> sec.h3])
                       /\ failedCover' =
                            {e \in failedCover : e.prod # <<Top.link, sec.h3>>}
                       /\ IF sec.h3 # "" /\ sec.h3 \notin Range(things_to_skip)
                          THEN AppendAndSave(sec.h3)
                          ELSE NoAppend
                       /\ stack' = SetTop([Top EXCEPT !.i = @ + 1])
                       /\ UNCHANGED <<storeFaults, exc>>
    /\ UNCHANGED <<tabVars, driver, attempt, leaves, slept, pureVars, typRuns, typBase>>

(***************************************************************************)
(* Exception propagation: the except clauses of the frame on top.          *)
(***************************************************************************)
\* Variant: run() re-raises without the finally clause, the driver is not quit.
UnwindNoQuit ==
    /\ phase = "running"
    /\ exc # "none"
    /\ stack # <<>>
    /\ IF Catches(Top, exc)
       THEN /\ stack' = SetTop(Continue(Top))
            /\ exc' = "none"
            /\ UNCHANGED <<tabVars, driver>>
       ELSE /\ stack' = SubSeq(stack, 1, Len(stack) - 1)
            /\ UNCHANGED <<tabVars, driver, exc>>
    /\ UNCHANGED <<skipVars, phase, storeVars, attempt, leaves, slept, pureVars, typRuns, typBase, failedCover>>

Unwind ==
    /\ phase = "running"
    /\ exc # "none"
    /\ stack # <<>>
    /\ IF Catches(Top, exc)
       THEN \* logged, continue with the next sibling
            /\ stack' = SetTop(Continue(Top))
            /\ exc' = "none"
            /\ UNCHANGED <<tabVars, driver>>
       ELSE IF Top.fn = "run"
       THEN \* raise e; finally: driver.quit()
            /\ stack' = <<>>
            /\ tabs' = <<>> /\ cur' = 0 /\ driver' = 0
            /\ UNCHANGED exc
       ELSE /\ stack' = SubSeq(stack, 1, Len(stack) - 1)
            /\ UNCHANGED <<tabVars, driver, exc>>
    /\ UNCHANGED <<skipVars, phase, storeVars, attempt, leaves, slept, pureVars, typRuns, typBase, failedCover>>

Next ==
    \/ StartSession
    \/ MainHandle
    \/ RunLoop
    \/ AccessCheck
    \/ RunDispatch
    \/ RunAfter
    \/ SubLoop
    \/ SubDispatch
    \/ SubAfter
    \/ TypGroup
    \/ TypItem
    \/ TypDispatch
    \/ TypAfter
    \/ HppEnter
    \/ HppSection
    \/ Unwind

Spec == Init /\ [][Next]_vars

TypeOK ==
    /\ phase \in {"main", "running", "exited", "gaveup", "uncaught", "crashed"}
    /\ exc \in {"none", "AR", "Err"}
    /\ attempt \in 0..max_retries
    /\ cur \in 0..Len(tabs)

(***************************************************************************)
(* handle_types_index_page() run on its own, twice on the same index page: *)
(* the second run starts from the skip list and the store the first left.  *)
(* The store accepts every insert here.                                    *)
(***************************************************************************)
TypesPages == {"Y1", "Y2"}

TypesSkipLists == {<<>>, default_list, <<"Hex">>}

InitTypes ==
    /\ things_to_skip \in TypesSkipLists
    /\ file = Valid(things_to_skip)
    /\ saveFaults = 0
    /\ db \in InitialStores
    /\ storeFaults = MaxStoreFaults
    /\ leaves = <<>>
    /\ phase = "running"
    /\ \E y \in TypesPages :
          /\ tabs = <<"HOME", y>>
          /\ stack = <<Frame("typ", y, "loop", "")>>
    /\ cur = 2
    /\ driver = 1
    /\ exc = "none"
    /\ attempt = 1
    /\ typRuns = 1
    /\ typBase = Len(db)
    /\ failedCover = {}
    /\ slept = 0
    /\ PureIdle

\* the first run returned normally: run the handler again on the same page
TypesAgain ==
    /\ phase = "running"
    /\ stack = <<>>
    /\ exc = "none"
    /\ typRuns = 1
    /\ typRuns' = 2
    /\ typBase' = Len(db)
    /\ tabs' = <<"HOME", tabs[2]>>
    /\ cur' = 2
    /\ stack' = <<Frame("typ", tabs[2], "loop", "")>>
    /\ UNCHANGED <<skipVars, phase, storeVars, driver, exc, attempt, leaves, slept, pureVars, failedCover>>

NextTypes ==
    \/ TypGroup
    \/ TypItem
    \/ AccessCheck
    \/ TypDispatch
    \/ TypAfter
    \/ HppEnter
    \/ HppSection
    \/ Unwind
    \/ TypesAgain

SpecTypes == InitTypes /\ [][NextTypes]_vars

(***************************************************************************)
(* Properties.                                                             *)
(***************************************************************************)

\* C1: a unit whose protection indicator did not become visible within the
\* 2s probe is treated as Access-Restricted (AccessRestrictedError is raised
\* at its access check), and a unit whose indicator was visible is not.
C1_AccessRestrictedDetection ==
    \A n \in DOMAIN stack :
        LET raisedHere == exc = "AR" /\ n = Len(stack) /\ stack[n].pc = "check"
        IN  /\ stack[n].ind = "absent" => raisedHere
            /\ stack[n].ind = "visible" => ~raisedHere

\* C2: once AccessRestrictedError is in flight every step pops one handler
\* frame and leaves the exception, the store, the skip list and its file
\* unchanged and opens no tab, until run() has raised it to main.py, which
\* takes the Access-Restricted branch of its retry loop.
C2_AccessRestrictedPropagates ==
    [][exc = "AR" =>
         /\ db' = db
         /\ things_to_skip' = things_to_skip
         /\ file' = file
         /\ Len(tabs') <= Len(tabs)
         /\ IF stack # <<>>
            THEN stack' = SubSeq(stack, 1, Len(stack) - 1) /\ exc' = "AR"
            ELSE stack' = stack /\ phase' \in {"main", "gaveup"}]_vars

\* AccessRestrictedError raised by the types-index handler called from the
\* subcategory-index handler called from run(), after a document was stored.
C2_Witness ==
    /\ exc = "AR"
    /\ Len(stack) = 3
    /\ stack[1].fn = "run" /\ stack[2].fn = "sub" /\ stack[3].fn = "typ"
    /\ Len(db) > 0

\* C3: the key category/subcat2 of a leaf enters the skip set only in the
\* step of run() that follows the normal return of the handler dispatched
\* for that leaf (never while the unit is open or while an exception of the
\* unit is in flight).
C3_RootKeyOnlyAfterReturn ==
    [][\A n \in DOMAIN leaves :
         LET key == SkipItemName(leaves[n])
         IN  (key \notin Range(things_to_skip) /\ key \in Range(things_to_skip'))
             => /\ exc = "none"
                /\ stack # <<>>
                /\ Top.fn = "run" /\ Top.pc = "after" /\ Top.i = n
                /\ Top.kind # "unknown"]_vars

\* run() has appended the key of its first leaf, a subcategory index, in a
\* session that follows an Access-Restricted one, and moved on.
C3_Witness ==
    /\ attempt >= 2
    /\ stack # <<>>
    /\ Top.fn = "run" /\ Top.pc = "loop" /\ Top.i = 2
    /\ leaves[1].href = "S1"
    /\ SkipItemName(leaves[1]) \in Range(things_to_skip)

\* C4: a local error never ends the iteration over the siblings of the unit
\* it occurred in: with an error in flight run() stays on the stack, and so
\* does handle_product_page() when the section that raised has a successor.
C4_LocalErrorsKeepSiblings ==
    [][(exc = "Err" /\ stack # <<>>) =>
         /\ Top.fn = "run" => stack' # <<>>
         /\ (Top.fn = "hpp" /\ Top.pc = "sec"
             /\ Top.i < Len(Site(Top.page).sections))
            => Len(stack') = Len(stack)]_vars

\* C5: while a product whose insert failed is not stored, none of the keys
\* that cover it (its title, the enclosing tile title, the enclosing
\* category/subcat2 key) is added to the skip set.
C5_StoreFailureNotCovered ==
    \A e \in failedCover : e.key \notin Range(things_to_skip)

\* C6: the store holds at most one record per link.
C6_OneRecordPerLink ==
    \A a, b \in DOMAIN db : a # b => db[a].link # db[b].link

\* C7: the second run of handle_types_index_page on the same index page
\* inserts no document.
C7_TypesIndexIdempotent ==
    typRuns = 2 => Len(db) = typBase

\* C8: every step leaves the skip list unchanged or appends one key to it.
C8_SkipListAppendOnly ==
    [][\/ things_to_skip' = things_to_skip
       \/ \E k \in Range(things_to_skip') :
             things_to_skip' = Append(things_to_skip, k)]_vars

\* The list has grown by the two titles of one page and a second session
\* is running.
C8_Witness ==
    /\ attempt >= 2
    /\ phase = "running"
    /\ {"Bolt", "Stud"} \subseteq Range(things_to_skip)

\* C9: every append to the skip list leaves the durable file equal to the
\* in-memory list; if the process dies in that step the file holds the list
\* with or without the new key.
C9_WriteThrough ==
    [][things_to_skip' # things_to_skip =>
         IF phase' = "crashed"
         THEN file' \in {Valid(things_to_skip), Valid(things_to_skip')}
         ELSE file' = Valid(things_to_skip')]_vars

\* C10: a crash during save_skip_list leaves the previous complete version
\* of the file (or the new complete one), never an empty or partial array.
C10_AtomicSave ==
    [][(phase # "crashed" /\ phase' = "crashed") =>
         file' \in {file, Valid(things_to_skip')}]_vars

(***************************************************************************)
(* save_skip_list and load_skip_list on their own: the JSON text written   *)
(* by json.dump(skip_list, f, indent=2) and read back by json.load(f).     *)
(* A key is a sequence of characters; the file is the sequence of the      *)
(* characters written.                                                     *)
(***************************************************************************)
MaxKeys == 2
MaxKeyLen == 1

KeyChars == {"a", "\"", "\\", ",", "\n"}

SeqsUpTo(S, n) == UNION {[1..m -> S] : m \in 0..n}

\* the lists of n keys
KeyLists(n) == [1..n -> SeqsUpTo(KeyChars, MaxKeyLen)]

\* the JSON escape of one character of a string
EscapeChar(c) ==
    CASE c = "\"" -> <<"\\", "\"">>
      [] c = "\\" -> <<"\\", "\\">>
      [] c = "\n" -> <<"\\", "n">>
      [] OTHER -> <<c>>

RECURSIVE Escape(_)
Escape(k) == IF k = <<>> THEN <<>> ELSE EscapeChar(Head(k)) \o Escape(Tail(k))

\* Variant: the key is written between quotes without escaping.
QuotedRaw(k) == <<"\"">> \o k \o <<"\"">>

\* a key as a JSON string
Quoted(k) == <<"\"">> \o Escape(k) \o <<"\"">>

RECURSIVE DumpItems(_)
DumpItems(list) ==
    IF list = <<>> THEN <<>>
    ELSE <<",", "\n", " ", " ">> \o Quoted(Head(list)) \o DumpItems(Tail(list))

\* json.dump(skip_list, f, indent=2)
json_dump(list) ==
    IF list = <<>> THEN <<"[", "]">>
    ELSE <<"[", "\n", " ", " ">> \o Quoted(Head(list)) \o DumpItems(Tail(list))
         \o <<"\n", "]">>

Whitespace == {" ", "\n"}

ParseError == [ok |-> FALSE, val |-> <<>>, next |-> 0]

\* index of the first non-whitespace character of t at or after i
RECURSIVE SkipWs(_, _)
SkipWs(t, i) ==
    IF i <= Len(t) /\ t[i] \in Whitespace THEN SkipWs(t, i + 1) ELSE i

\* the characters of a JSON string whose opening quote precedes t[i]
RECURSIVE ParseString(_, _, _)
ParseString(t, i, acc) ==
    IF i > Len(t) THEN ParseError
    ELSE IF t[i] = "\"" THEN [ok |-> TRUE, val |-> acc, next |-> i + 1]
    ELSE IF t[i] = "\\"
    THEN IF i + 1 > Len(t) THEN ParseError
         ELSE IF t[i + 1] \in {"\"", "\\"}
         THEN ParseString(t, i + 2, Append(acc, t[i + 1]))
         ELSE IF t[i + 1] = "n" THEN ParseString(t, i + 2, Append(acc, "\n"))
         ELSE ParseError
    ELSE IF t[i] = "\n" THEN ParseError   \* control character inside a string
    ELSE ParseString(t, i + 1, Append(acc, t[i]))

\* the elements of an array from the element that starts at t[i]
RECURSIVE ParseItems(_, _, _)
ParseItems(t, i, acc) ==
    IF i > Len(t) \/ t[i] # "\"" THEN ParseError
    ELSE LET str == ParseString(t, i + 1, <<>>)
             j == SkipWs(t, str.next)
         IN  IF ~str.ok \/ j > Len(t) THEN ParseError
             ELSE IF t[j] = "," THEN ParseItems(t, SkipWs(t, j + 1), Append(acc, str.val))
             ELSE IF t[j] = "]" /\ SkipWs(t, j + 1) = Len(t) + 1
             THEN [ok |-> TRUE, val |-> Append(acc, str.val), next |-> Len(t) + 1]
             ELSE ParseError

\* json.load(f): an array of strings, or an exception
json_load(t) ==
    LET i == SkipWs(t, 1)
        j == SkipWs(t, i + 1)
    IN  IF i > Len(t) \/ t[i] # "[" \/ j > Len(t) THEN ParseError
        ELSE IF t[j] = "]"
        THEN IF SkipWs(t, j + 1) = Len(t) + 1
             THEN [ok |-> TRUE, val |-> <<>>, next |-> Len(t) + 1]
             ELSE ParseError
        ELSE ParseItems(t, j, <<>>)

\* The crawl is not running.
CrawlIdle ==
    /\ things_to_skip = <<>> /\ file = Absent /\ saveFaults = 0
    /\ phase = "exited" /\ db = <<>> /\ storeFaults = 0
    /\ tabs = <<>> /\ cur = 0 /\ driver = 0 /\ stack = <<>> /\ exc = "none"
    /\ attempt = 0 /\ leaves = <<>> /\ slept = 0
    /\ typRuns = 0 /\ typBase = 0 /\ failedCover = {}

InitRoundTrip ==
    /\ CrawlIdle
    /\ TableIdle
    /\ ProductIdle
    /\ \E n \in 0..MaxKeys : rtList \in KeyLists(n)
    /\ disk = <<>>
    /\ loaded = <<>>
    /\ rtpc = "start"

\* save_skip_list(skip_list), the write succeeding
RtSave ==
    /\ rtpc = "start"
    /\ disk' = json_dump(rtList)
    /\ rtpc' = "saved"
    /\ UNCHANGED <<rtList, loaded, crawlVars, tableVars, productVars>>

\* load_skip_list() on the file that exists: json.load, [] on any exception
RtLoad ==
    /\ rtpc = "saved"
    /\ loaded' = IF json_load(disk).ok THEN json_load(disk).val ELSE <<>>
    /\ rtpc' = "loaded"
    /\ UNCHANGED <<rtList, disk, crawlVars, tableVars, productVars>>

NextRoundTrip ==
    \/ RtSave
    \/ RtLoad

SpecRoundTrip == InitRoundTrip /\ [][NextRoundTrip]_vars

\* C11: for every list of string keys, the list load_skip_list returns from
\* the file save_skip_list wrote is that list (so the key sets are equal).
C11_SkipListRoundTrip ==
    rtpc = "loaded" => loaded = rtList

\* Two keys that need escaping have been saved and loaded.
C11_Witness ==
    /\ rtpc = "loaded"
    /\ rtList = << <<"\"">>, <<"\\">> >>
    /\ loaded = rtList

(***************************************************************************)
(* Classification, tab lifecycle, session boundary.                        *)
(***************************************************************************)
\* C12: at every call site the page of a dispatched unit is given the kind of
\* the one order Table > Subcategory-Index > Types-Index > Product > Unknown,
\* a page with zero group containers or with the product marker being a
\* Product Page.
C12_OnePrecedenceOrder ==
    \A n \in DOMAIN stack :
        (stack[n].fn \in {"run", "sub"} /\ stack[n].kind # "") =>
            LET f == stack[n]
                p == Site(IF f.fn = "run" THEN leaves[f.i].href
                          ELSE Site(f.page).tiles[f.i].href)
            IN  f.kind = (IF p.table THEN "table"
                          ELSE IF p.rendered THEN "subcat"
                          ELSE IF Len(p.groups) > 0 THEN "types"
                          ELSE IF Len(p.groups) = 0 \/ p.marker THEN "product"
                          ELSE "unknown")

\* C13: the step that follows the dispatch of a page classified Unknown, at
\* the root and in the subcategory index, inserts no document, opens no tab
\* and leaves the skip list as it is.
C13_UnknownPageNoEffect ==
    [][(Running /\ Top.fn \in {"run", "sub"} /\ Top.pc = "after"
          /\ Top.kind = "unknown")
       => (things_to_skip' = things_to_skip /\ db' = db
             /\ Len(tabs') <= Len(tabs))]_vars

\* C14: while no exception is in flight the open tabs are the root tab and
\* one tab for each unit in progress: a handler that goes on to the next
\* sibling has closed the tab of the previous one.
C14_TabClosedBeforeSibling ==
    (phase = "running" /\ exc = "none" /\ stack # <<>>) =>
        Len(tabs) = 1 + Cardinality({n \in DOMAIN stack :
                          /\ stack[n].fn \in {"run", "sub", "typ"}
                          /\ stack[n].pc \in {"check", "dispatch", "call", "after"}})

\* C15: at most max_retries sessions are started; a session is started only
\* as the first one or after an Access-Restricted session and the backoff of
\* retry_delay seconds; a session that completes ends the loop at once; the
\* max_retries-th Access-Restricted session ends it too; an ended loop takes
\* no further step.
C15_RetryLoopTerminates ==
    [][/\ attempt' <= max_retries
       /\ attempt' # attempt =>
             /\ attempt' = attempt + 1
             /\ phase = "main" /\ attempt < max_retries
             /\ (attempt = 0 \/ slept = retry_delay)
       /\ (phase = "running" /\ stack = <<>> /\ exc = "none") => phase' = "exited"
       /\ (phase = "running" /\ stack = <<>> /\ exc = "AR") =>
             /\ slept' = retry_delay
             /\ phase' = IF attempt = max_retries THEN "gaveup" ELSE "main"
       /\ phase \notin {"exited", "gaveup"}]_vars

\* The fifth session in a row ended with Access-Restricted.
C15_Witness ==
    phase = "gaveup" /\ attempt = max_retries /\ slept = retry_delay

\* C16: no error other than Access-Restricted leaves run() and ends the
\* process with an uncaught exception.
C16_OnlyAccessRestrictedSurfaces ==
    phase # "uncaught"

\* C17: at most one browser session is alive, and none is once run() has
\* handed control back to main.py, however run() ended.
C17_SessionQuitOnEveryExit ==
    /\ driver \in {0, 1}
    /\ (phase = "running" /\ stack = <<>>) => driver = 0
    /\ phase \in {"main", "exited", "gaveup", "uncaught"} => driver = 0

\* A second session runs after an Access-Restricted one: one browser is alive.
C17_Witness ==
    attempt = 2 /\ phase = "running" /\ stack # <<>> /\ driver = 1

(***************************************************************************)
(* extract_data_from_table_ele(table) on its own.  A text is a sequence of *)
(* tokens (words, " " and "\n"); a Row Record is a function from keys to   *)
(* texts.  A table is what the locators find in it: whether it has a       *)
(* <tbody> and a <thead>, the <td> cells of the <thead>, and for each <tr> *)
(* of the <tbody> whether it has a <th>, the text of that <th> and its     *)
(* <td> cells.                                                             *)
(***************************************************************************)
MaxCols == 3
MaxRows == 3
MaxCells == 2

\* Python's None
None == <<"None">>

PropertyA == <<"Property A">>
PropertyB == <<"Property B">>
serial_nu == <<"serial_nu">>

Blank == {" ", "\n"}

RECURSIVE LStrip(_)
LStrip(t) == IF t # <<>> /\ Head(t) \in Blank THEN LStrip(Tail(t)) ELSE t

RECURSIVE RStrip(_)
RStrip(t) ==
    IF t # <<>> /\ t[Len(t)] \in Blank THEN RStrip(SubSeq(t, 1, Len(t) - 1)) ELSE t

\* .strip()
Strip(t) == RStrip(LStrip(t))

\* .text.strip().replace('\n', '_')
StripReplace(t) ==
    [n \in DOMAIN Strip(t) |-> IF Strip(t)[n] = "\n" THEN "_" ELSE Strip(t)[n]]

\* Variant: a negative index is taken for the front of the list.
list_insert_front(l, index, x) ==
    LET k == IF index < 0 THEN 0
             ELSE (IF index > Len(l) THEN Len(l) ELSE index)
    IN  SubSeq(l, 1, k) \o <<x>> \o SubSeq(l, k + 1, Len(l))

\* list.insert(index, x)
list_insert(l, index, x) ==
    LET k == IF index < 0
             THEN (IF Len(l) + index < 0 THEN 0 ELSE Len(l) + index)
             ELSE (IF index > Len(l) THEN Len(l) ELSE index)
    IN  SubSeq(l, 1, k) \o <<x>> \o SubSeq(l, k + 1, Len(l))

\* row_data[key] = value
Put(d, key, value) ==
    [x \in DOMAIN d \cup {key} |-> IF x = key THEN value ELSE d[x]]

\* The text of the i-th <td> of <thead> (the second is blank); none is one
\* of the keys the extractor adds itself.
HeaderText(i) ==
    CASE i = 1 -> <<"Material">>
      [] i = 2 -> <<" ">>
      [] i = 3 -> <<"Length", "\n", "mm">>
      [] OTHER -> <<"Header" \o ToString(i)>>

\* The texts of a <th> of a body row.
ThTexts == {<<"2-56">>, <<"Steel", "\n", "Alloy">>, <<" ">>}

CellText(i) ==
    IF i = 1 THEN <<" ", "Zinc", "\n", "Plated">> ELSE <<"cell" \o ToString(i)>>

TableRow(hasTh, th, cells) == [hasTh |-> hasTh, th |-> th, cells |-> cells]

TableRows ==
    {TableRow(FALSE, <<>>, [i \in 1..k |-> CellText(i)]) : k \in 0..MaxCells}
    \cup {TableRow(TRUE, t, [i \in 1..k |-> CellText(i)]) :
            t \in ThTexts, k \in 0..MaxCells}

\* a table with k header cells (none without <thead>) and the body rows rs
\* (none without <tbody>)
Table(tbody, thead, k, rs) ==
    [tbody |-> tbody, thead |-> thead,
     header_cells |-> [i \in 1..k |-> HeaderText(i)], rows |-> rs]

\* row.text: the texts of the row's cells, one after the other
RECURSIVE JoinTexts(_)
JoinTexts(ts) ==
    IF ts = <<>> THEN <<>>
    ELSE IF Len(ts) = 1 THEN ts[1]
    ELSE ts[1] \o <<" ">> \o JoinTexts(Tail(ts))

RowText(row) ==
    JoinTexts(IF row.hasTh THEN <<row.th>> \o row.cells ELSE row.cells)


\* A table of two header cells "Material" and "Length", inside a <thead> or
\* in a header row outside one, and two body rows: <th> "2-56" with the cells
\* "Steel", "10mm", then the cells "Brass", "12mm".
WorkedExample(thead) ==
    [tbody |-> TRUE, thead |-> thead,
     header_cells |-> << <<"Material">>, <<"Length">> >>,
     rows |-> <<TableRow(TRUE, <<"2-56">>, << <<"Steel">>, <<"10mm">> >>),
                TableRow(FALSE, <<>>, << <<"Brass">>, <<"12mm">> >>)>>]

\* Variant: the dimension is always the text of the whole first row.
DimensionValueRowText(t) ==
    IF t.rows = <<>> THEN None
    ELSE StripReplace(RowText(t.rows[1]))

\* 1) the dimension (Property A): the first row's <th>, else the row's text
DimensionValue(t) ==
    IF t.rows = <<>> THEN None
    ELSE IF t.rows[1].hasTh THEN StripReplace(t.rows[1].th)
    ELSE StripReplace(RowText(t.rows[1]))

\* the non-empty texts of the <td> cells of <thead>
RECURSIVE HeaderLabels(_)
HeaderLabels(hc) ==
    IF hc = <<>> THEN <<>>
    ELSE IF StripReplace(Head(hc)) # <<>>
    THEN <<StripReplace(Head(hc))>> \o HeaderLabels(Tail(hc))
    ELSE HeaderLabels(Tail(hc))

\* Variant: the synthetic header is not inserted.
HeadersNoSerial(t) ==
    IF t.thead THEN HeaderLabels(t.header_cells) ELSE <<>>

\* 2) the column headers, then headers.insert(-1, "serial_nu")
Headers(t) ==
    list_insert(IF t.thead THEN HeaderLabels(t.header_cells) ELSE <<>>,
                -1, serial_nu)

\* Variant: an empty <th> text is a new Property B as well.
NextPropertyBEmpty(row, cpb, dim) ==
    IF row.hasTh /\ StripReplace(row.th) # dim
    THEN StripReplace(row.th)
    ELSE cpb

\* Variant: a row without a <th> starts with no group label.
NextPropertyBReset(row, cpb, dim) ==
    IF row.hasTh /\ StripReplace(row.th) # <<>> /\ StripReplace(row.th) # dim
    THEN StripReplace(row.th)
    ELSE IF row.hasTh THEN cpb ELSE None

\* the row's <th>, if it has text that is not the dimension, is the new
\* Property B
NextPropertyB(row, cpb, dim) ==
    IF row.hasTh /\ StripReplace(row.th) # <<>> /\ StripReplace(row.th) # dim
    THEN StripReplace(row.th)
    ELSE cpb

\* Variant: a cell beyond the headers is stored under a key made of its
\* position.
StoreCellUnguarded(rd, hs, i, cell_text) ==
    Put(rd, IF i <= Len(hs) THEN hs[i] ELSE <<"column", ToString(i)>>, cell_text)

\* if i < len(headers): row_data[headers[i]] = cell_text   (i counted from 1)
StoreCell(rd, hs, i, cell_text) ==
    IF i <= Len(hs) THEN Put(rd, hs[i], cell_text) ELSE rd

\* for i, cell in enumerate(cells)
RECURSIVE FillRow(_, _, _, _)
FillRow(rd, hs, cells, i) ==
    IF i > Len(cells) THEN rd
    ELSE FillRow(StoreCell(rd, hs, i, StripReplace(cells[i])), hs, cells, i + 1)

\* Variant: a row with a <th> takes its own <th> as Property A.
RowDataOwnTh(row, dim, cpb, hs) ==
    FillRow(Put(Put(<<>>, PropertyA,
                    IF row.hasTh THEN StripReplace(row.th) ELSE dim),
                PropertyB, cpb), hs, row.cells, 1)

\* the dictionary of one row
RowData(row, dim, cpb, hs) ==
    FillRow(Put(Put(<<>>, PropertyA, dim), PropertyB, cpb), hs, row.cells, 1)

InitTable ==
    /\ CrawlIdle
    /\ RoundTripIdle
    /\ ProductIdle
    /\ \/ \E tbody, thead \in BOOLEAN, k \in 0..MaxCols, n \in 0..MaxRows :
             /\ tbody \/ (~thead /\ n = 0)
             /\ thead \/ k = 0
             /\ \E rs \in [1..n -> TableRows] : table = Table(tbody, thead, k, rs)
       \/ \E thead \in BOOLEAN : table = WorkedExample(thead)
    /\ tpc = "start"
    /\ dimension_value = None
    /\ headers = <<>>
    /\ current_property_b = None
    /\ rowIdx = 0
    /\ data = <<>>

\* up to the row loop: tbody, dimension, headers
ExtractStart ==
    /\ tpc = "start"
    /\ IF ~table.tbody
       THEN \* except NoSuchElementException: return []
            /\ tpc' = "done"
            /\ UNCHANGED <<dimension_value, headers, rowIdx>>
       ELSE /\ dimension_value' = DimensionValue(table)
            /\ headers' = Headers(table)
            /\ rowIdx' = 1
            /\ tpc' = "rows"
    /\ data' = <<>>
    /\ current_property_b' = None
    /\ UNCHANGED <<table, crawlVars, rtVars, productVars>>

\* Variant: a record is appended for a row without <td> cells too.
ExtractRowAlways ==
    /\ tpc = "rows"
    /\ rowIdx <= Len(table.rows)
    /\ LET row == table.rows[rowIdx]
           cpb == NextPropertyB(row, current_property_b, dimension_value)
       IN  /\ current_property_b' = cpb
           /\ data' = Append(data, RowData(row, dimension_value, cpb, headers))
    /\ rowIdx' = rowIdx + 1
    /\ UNCHANGED <<table, tpc, dimension_value, headers, crawlVars, rtVars, productVars>>

\* one iteration of "for row in rows"
ExtractRow ==
    /\ tpc = "rows"
    /\ rowIdx <= Len(table.rows)
    /\ LET row == table.rows[rowIdx]
           cpb == NextPropertyB(row, current_property_b, dimension_value)
       IN  /\ current_property_b' = cpb
           /\ data' = IF row.cells # <<>>
                      THEN Append(data, RowData(row, dimension_value, cpb, headers))
                      ELSE data
    /\ rowIdx' = rowIdx + 1
    /\ UNCHANGED <<table, tpc, dimension_value, headers, crawlVars, rtVars, productVars>>

\* return data
ExtractReturn ==
    /\ tpc = "rows"
    /\ rowIdx > Len(table.rows)
    /\ tpc' = "done"
    /\ UNCHANGED <<table, dimension_value, headers, current_property_b, rowIdx,
                   data, crawlVars, rtVars, productVars>>

NextTable ==
    \/ ExtractStart
    \/ ExtractRow
    \/ ExtractReturn

SpecTable == InitTable /\ [][NextTable]_vars


\* C18 as stated: every emitted Row Record has the key serial_nu.
C18_SerialNuInEveryRecord ==
    \A k \in DOMAIN data : serial_nu \in DOMAIN data[k]

\* C18 amended: for a table with N header labels, the record emitted for a
\* body row that has data cells, at least N of them, has the key serial_nu.
C18_SerialNuWhenEnoughCells ==
    [][(tpc = "rows" /\ Len(data') = Len(data) + 1) =>
         LET row == table.rows[rowIdx]
             N == Cardinality({n \in DOMAIN table.header_cells :
                                 Strip(table.header_cells[n]) # <<>>})
         IN  Len(row.cells) >= N => serial_nu \in DOMAIN data'[Len(data')]]_vars

\* Two header labels; a row with two cells and a row with one cell have
\* been emitted, the first with serial_nu, the second without.
C18_Witness ==
    /\ tpc = "done"
    /\ Len(headers) = 3
    /\ Len(data) = 2
    /\ Len(table.rows) = 2
    /\ Len(table.rows[1].cells) = 2 /\ serial_nu \in DOMAIN data[1]
    /\ Len(table.rows[2].cells) = 1 /\ serial_nu \notin DOMAIN data[2]

\* C19: for a table with N header labels every emitted Row Record has at
\* most N+3 keys: Property A, Property B, serial_nu and header labels of the
\* table; the cells beyond the headers add none.
C19_AtMostNPlus3Keys ==
    LET labels == {StripReplace(table.header_cells[n]) :
                     n \in DOMAIN table.header_cells} \ {<<>>}
    IN  \A k \in DOMAIN data :
            /\ Cardinality(DOMAIN data[k]) <= Cardinality(labels) + 3
            /\ DOMAIN data[k] \subseteq {PropertyA, PropertyB, serial_nu} \cup labels

\* A row with two cells of a table without header labels has been emitted:
\* its record has three keys, the second cell was dropped.
C19_Witness ==
    /\ tpc = "done"
    /\ headers = <<serial_nu>>
    /\ Len(table.rows) >= 1 /\ Len(table.rows[1].cells) = 2
    /\ Len(data) >= 1
    /\ DOMAIN data[1] = {PropertyA, PropertyB, serial_nu}

\* C20: the running Property B changes only in the step of a body row whose
\* row-header cell sets it, to that cell's text, and the record emitted in a
\* step carries the running value: between two consecutive records Property
\* B changes only through such a row and never goes back on its own.
C20_PropertyBMonotonic ==
    [][tpc = "rows" =>
         /\ current_property_b' # current_property_b =>
               /\ rowIdx <= Len(table.rows)
               /\ table.rows[rowIdx].hasTh
               /\ current_property_b' = StripReplace(table.rows[rowIdx].th)
         /\ Len(data') > Len(data) =>
               data'[Len(data')][PropertyB] = current_property_b'
         /\ (Len(data') > Len(data) /\ data # <<>>
               /\ data'[Len(data')][PropertyB] # data[Len(data)][PropertyB]) =>
               \E m \in 1..rowIdx :
                   /\ table.rows[m].hasTh
                   /\ StripReplace(table.rows[m].th) = data'[Len(data')][PropertyB]]_vars

\* Three records: the second row's header cell set Property B, the third row
\* has no header cell and inherits it.
C20_Witness ==
    /\ tpc = "done"
    /\ Len(data) = 3
    /\ Len(table.rows) = 3
    /\ ~table.rows[3].hasTh
    /\ data[1][PropertyB] = None
    /\ data[2][PropertyB] = <<"Steel", "_", "Alloy">>
    /\ data[3][PropertyB] = <<"Steel", "_", "Alloy">>


\* C21 as stated: the worked example without <thead> yields two records,
\* both with Property A "2-56", the first with Material "Steel" and a
\* serial_nu key.
C21_WorkedExampleNoThead ==
    (tpc = "done" /\ table = WorkedExample(FALSE)) =>
        /\ Len(data) = 2
        /\ data[1][PropertyA] = <<"2-56">> /\ data[2][PropertyA] = <<"2-56">>
        /\ <<"Material">> \in DOMAIN data[1]
        /\ data[1][<<"Material">>] = <<"Steel">>
        /\ serial_nu \in DOMAIN data[1]

\* C21 amended: the worked example with the two header cells inside <thead>
\* yields two records, both with Property A "2-56", the first with Material
\* "Steel" and a serial_nu key.
C21_WorkedExampleThead ==
    (tpc = "done" /\ table = WorkedExample(TRUE)) =>
        /\ Len(data) = 2
        /\ data[1][PropertyA] = <<"2-56">> /\ data[2][PropertyA] = <<"2-56">>
        /\ <<"Material">> \in DOMAIN data[1]
        /\ data[1][<<"Material">>] = <<"Steel">>
        /\ serial_nu \in DOMAIN data[1]

\* The worked example with <thead> has been extracted.
C21_Witness ==
    /\ tpc = "done"
    /\ table = WorkedExample(TRUE)
    /\ data = << [x \in {PropertyA, PropertyB, <<"Material">>, serial_nu} |->
                    CASE x = PropertyA -> <<"2-56">>
                      [] x = PropertyB -> None
                      [] x = <<"Material">> -> <<"Steel">>
                      [] OTHER -> <<"10mm">>],
                 [x \in {PropertyA, PropertyB, <<"Material">>, serial_nu} |->
                    CASE x = PropertyA -> <<"2-56">>
                      [] x = PropertyB -> None
                      [] x = <<"Material">> -> <<"Brass">>
                      [] OTHER -> <<"12mm">>] >>


(***************************************************************************)
(* Frame conditions of the handlers.                                       *)
(***************************************************************************)
\* C22: in handle_types_index_page the step of an item whose title is in the
\* skip set changes nothing but the loop index; the step of an item whose
\* title is not in the skip set and whose link is in the store opens no tab,
\* calls no handler, inserts nothing, appends the title to the skip set and
\* leaves the durable file equal to the new skip set.
C22_TypesItemSkipOrBackfill ==
    [][(Running /\ Top.fn = "typ" /\ Top.pc = "item"
          /\ Top.j <= Len(Site(Top.page).groups[Top.i].items)
          /\ Site(Top.page).groups[Top.i].items[Top.j].hasKe) =>
         LET it == Site(Top.page).groups[Top.i].items[Top.j]
         IN  /\ it.title \in Range(things_to_skip) =>
                  /\ UNCHANGED <<things_to_skip, file, db, tabs>>
                  /\ Len(stack') = Len(stack)
             /\ (it.title \notin Range(things_to_skip) /\ find_document(it.href)) =>
                  /\ UNCHANGED <<db, tabs>>
                  /\ Len(stack') = Len(stack)
                  /\ things_to_skip' = Append(things_to_skip, it.title)
                  /\ file' = Valid(things_to_skip')]_vars


(***************************************************************************)
(* The row loop of the table extractor.                                    *)
(***************************************************************************)
\* C23: each iteration over a body row with at least one data cell appends
\* one record, made of that row's cells, after the records of the rows
\* before it; an iteration over a row without data cells appends none; the
\* list returned has one record per body row with data cells.
C23_OneRecordPerDataRow ==
    [][tpc = "rows" =>
         /\ SubSeq(data', 1, Len(data)) = data
         /\ Len(data') = Cardinality({n \in 1..(rowIdx' - 1) :
                                        table.rows[n].cells # <<>>})
         /\ (rowIdx <= Len(table.rows) /\ table.rows[rowIdx].cells # <<>>) =>
               /\ Len(data') = Len(data) + 1
               /\ data'[Len(data')][headers[1]] =
                     StripReplace(table.rows[rowIdx].cells[1])
         /\ (rowIdx <= Len(table.rows) /\ table.rows[rowIdx].cells = <<>>) =>
               data' = data
         /\ tpc' = "done" =>
               Len(data') = Cardinality({n \in DOMAIN table.rows :
                                           table.rows[n].cells # <<>>})]_vars

\* Three body rows, the second with a row-header cell and no data cell:
\* two records.
C23_Witness ==
    /\ tpc = "done"
    /\ Len(table.rows) = 3
    /\ table.rows[1].cells # <<>> /\ table.rows[3].cells # <<>>
    /\ table.rows[2].hasTh /\ table.rows[2].cells = <<>>
    /\ Len(data) = 2

\* C24: the header list is the non-empty labels of <thead> with serial_nu
\* before the last of them (alone when there is none), and the record of a
\* row holds its i-th data cell under the i-th header.
C24_SerialNuBeforeLastHeader ==
    [][tpc = "rows" =>
         LET cells == IF table.thead THEN table.header_cells ELSE <<>>
             L == SelectSeq([n \in DOMAIN cells |-> StripReplace(cells[n])],
                            LAMBDA x : x # <<>>)
             expected == IF L = <<>> THEN <<serial_nu>>
                         ELSE SubSeq(L, 1, Len(L) - 1) \o <<serial_nu, L[Len(L)]>>
         IN  /\ headers = expected
             /\ Len(data') = Len(data) + 1 =>
                   \A i \in DOMAIN table.rows[rowIdx].cells :
                       i <= Len(expected) =>
                           data'[Len(data')][expected[i]] =
                               StripReplace(table.rows[rowIdx].cells[i])]_vars

\* Two labels: serial_nu is the second of three headers and holds the
\* second cell of the first row.
C24_Witness ==
    /\ tpc = "done"
    /\ headers = << <<"Material">>, serial_nu, <<"Length", "_", "mm">> >>
    /\ Len(data) >= 1
    /\ Len(table.rows[1].cells) = 2
    /\ data[1][serial_nu] = StripReplace(CellText(2))

\* C25: every record carries as Property A the dimension of the first body
\* row: its row-header text if it has one, else its whole text, stripped and
\* with newlines replaced by underscores.
C25_PropertyAFromFirstRow ==
    \A k \in DOMAIN data :
        data[k][PropertyA] =
            (IF table.rows[1].hasTh THEN StripReplace(table.rows[1].th)
             ELSE StripReplace(RowText(table.rows[1])))

\* The second row has its own row-header cell, its record keeps the
\* dimension of the first row.
C25_Witness ==
    /\ tpc = "done"
    /\ Len(data) = 2
    /\ Len(table.rows) = 2
    /\ table.rows[1].hasTh /\ table.rows[1].th = <<"2-56">>
    /\ table.rows[2].hasTh /\ table.rows[2].th = <<"Steel", "\n", "Alloy">>
    /\ data[2][PropertyA] = <<"2-56">>

C28_OneRecordPerSectionThenKey ==
    [][(phase = "running" /\ stack # <<>> /\ Top.fn = "hpp" /\ Top.pc = "sec") =>
         LET sections == Site(Top.page).sections
         IN  /\ Len(stack') < Len(stack) => Top.i > Len(sections)
             /\ (Len(stack') = Len(stack) /\ stack'[Len(stack)].i = Top.i + 1
                   /\ sections[Top.i].cls # "ap") =>
                   db' = Append(db, [link |-> Top.link, title |-> sections[Top.i].h3])
             /\ things_to_skip' # things_to_skip =>
                   /\ things_to_skip' = Append(things_to_skip, sections[Top.i].h3)
                   /\ Len(db') = Len(db) + 1
             /\ db' = db => things_to_skip' = things_to_skip]_vars

\* C29: the step of the root handler over a leaf whose category/subcat2 key
\* is in the skip set, and the step of the subcategory-index handler over a
\* tile whose title is in it, only move on to the next sibling: no tab, no
\* probe, no insert, skip set and file unchanged.
C29_SkipHitChangesNothing ==
    [][/\ (Running /\ Top.fn = "run" /\ Top.pc = "loop" /\ Top.i <= Len(leaves)
             /\ SkipItemName(leaves[Top.i]) \in Range(things_to_skip)) =>
             /\ UNCHANGED <<tabs, cur, db, things_to_skip, file>>
             /\ stack' = SetTop([Top EXCEPT !.i = @ + 1])
       /\ (Running /\ Top.fn = "sub" /\ Top.pc = "loop"
             /\ Top.i <= Len(Site(Top.page).tiles)
             /\ Site(Top.page).tiles[Top.i].complete
             /\ Site(Top.page).tiles[Top.i].title \in Range(things_to_skip)) =>
             /\ UNCHANGED <<tabs, cur, db, things_to_skip, file>>
             /\ stack' = SetTop([Top EXCEPT !.i = @ + 1])]_vars

\* The first leaf was in the skip list the session started with: the root
\* handler is at the second leaf and nothing of the first was scraped.
C29_Witness ==
    /\ phase = "running" /\ attempt = 1
    /\ Len(stack) = 1 /\ Top.fn = "run" /\ Top.pc = "loop" /\ Top.i = 2
    /\ leaves[1] = Leaf("Fastening", "Screws", "T1")
    /\ "Fastening/Screws" \in Range(things_to_skip)
    /\ "Bolt" \notin Range(things_to_skip)
    /\ tabs = <<"HOME">>
    /\ \A n \in DOMAIN db : db[n].link # "T1"

\* C30: the step of handle_subcategories_index_page that adds a tile title
\* to the skip set follows a handler that was dispatched for the tile (the
\* page was not Unknown), that found the page container and under which no
\* product failed.
C30_TileKeyOnlyOnSuccess ==
    [][(Running /\ Top.fn = "sub" /\ Top.pc = "after"
          /\ things_to_skip' # things_to_skip) =>
         LET tile == Site(Top.page).tiles[Top.i]
         IN  /\ Top.kind \in {"table", "product", "types"}
             /\ Top.kind \in {"table", "product"} => Site(tile.href).cntnr
             /\ \A e \in failedCover : e.key # tile.title]_vars


(***************************************************************************)
(* product_section_scrape_data() on its own, from the wait for the <table> *)
(* elements on: the table loop, the insert, the skip-list append.  A table *)
(* element is a table and whether its extraction raises an exception that  *)
(* extract_data_from_table_ele does not catch itself (a stale element).    *)
(***************************************************************************)
MaxTables == 3

\* the rows of the table from row i on, as extract_data_from_table_ele
\* appends them
RECURSIVE ExtractRows(_, _, _, _, _)
ExtractRows(rows, i, dim, hs, cpb) ==
    IF i > Len(rows) THEN <<>>
    ELSE LET b == NextPropertyB(rows[i], cpb, dim)
         IN  (IF rows[i].cells # <<>> THEN <<RowData(rows[i], dim, b, hs)>> ELSE <<>>)
             \o ExtractRows(rows, i + 1, dim, hs, b)

\* extract_data_from_table_ele(table): the list it returns
extract_data_from_table_ele(t) ==
    IF ~t.tbody THEN <<>>
    ELSE ExtractRows(t.rows, 1, DimensionValue(t), Headers(t), None)

TableElement(raises, t) == [raises |-> raises, t |-> t]

TableElements ==
    {TableElement(FALSE, WorkedExample(TRUE)),
     TableElement(FALSE, Table(FALSE, FALSE, 0, <<>>)),
     TableElement(TRUE, WorkedExample(TRUE))}

\* the entries of product_data["data"]
TableResult(rows) == [rows |-> rows]
ExtractionFailed == [error |-> "Extraction failed"]
NoTableData == [info |-> "No table data found on this page"]
TableExtractionFailed == [error |-> "Table extraction failed"]

InitProduct ==
    /\ things_to_skip = default_list /\ file = Valid(default_list)
    /\ saveFaults = 0
    /\ phase = "running" /\ db = <<>> /\ storeFaults = 0
    /\ tabs = <<"HOME", "T1">> /\ cur = 2 /\ driver = 1
    /\ stack = <<>> /\ exc = "none" /\ attempt = 1 /\ leaves = <<>>
    /\ slept = 0 /\ typRuns = 0 /\ typBase = 0 /\ failedCover = {}
    /\ RoundTripIdle
    /\ TableIdle
    /\ found \in {"found", "timeout", "error"}
    /\ IF found = "found"
       THEN \E n \in 1..MaxTables : table_elements \in [1..n -> TableElements]
       ELSE table_elements = <<>>
    /\ table_idx = 0
    /\ product_data = <<>>
    /\ ppc = "find"

\* WebDriverWait(self.driver, 10).until(presence_of_all_elements_located)
ProductFindTables ==
    /\ ppc = "find"
    /\ CASE found = "found" ->
              /\ table_idx' = 1
              /\ ppc' = "tables"
              /\ UNCHANGED product_data
         [] found = "timeout" ->
              \* except TimeoutException
              /\ product_data' = Append(product_data, NoTableData)
              /\ ppc' = "insert"
              /\ UNCHANGED table_idx
         [] OTHER ->
              \* except Exception
              /\ product_data' = Append(product_data, TableExtractionFailed)
              /\ ppc' = "insert"
              /\ UNCHANGED table_idx
    /\ UNCHANGED <<found, table_elements, crawlVars, rtVars, tableVars>>

\* Variant: a table whose extraction raises leaves no entry.
ProductTableNoMarker ==
    /\ ppc = "tables"
    /\ IF table_idx > Len(table_elements)
       THEN /\ ppc' = "insert"
            /\ UNCHANGED <<table_idx, product_data>>
       ELSE /\ product_data' =
                 IF table_elements[table_idx].raises
                 THEN product_data
                 ELSE Append(product_data,
                        TableResult(extract_data_from_table_ele(table_elements[table_idx].t)))
            /\ table_idx' = table_idx + 1
            /\ UNCHANGED ppc
    /\ UNCHANGED <<found, table_elements, crawlVars, rtVars, tableVars>>

\* one iteration of "for table_idx, table_e in enumerate(table_elements, 1)"
ProductTable ==
    /\ ppc = "tables"
    /\ IF table_idx > Len(table_elements)
       THEN /\ ppc' = "insert"
            /\ UNCHANGED <<table_idx, product_data>>
       ELSE /\ product_data' =
                 IF table_elements[table_idx].raises
                 THEN Append(product_data, ExtractionFailed)
                 ELSE Append(product_data,
                        TableResult(extract_data_from_table_ele(table_elements[table_idx].t)))
            /\ table_idx' = table_idx + 1
            /\ UNCHANGED ppc
    /\ UNCHANGED <<found, table_elements, crawlVars, rtVars, tableVars>>

\* db_client.insert_document(product_data), then the title is appended to
\* the skip list and saved
ProductInsert ==
    /\ ppc = "insert"
    /\ \E inserted \in InsertOutcomes :
          IF ~inserted
          THEN /\ exc' = "Err"
               /\ storeFaults' = storeFaults + 1
               /\ ppc' = "raised"
               /\ NoAppend
               /\ UNCHANGED db
          ELSE /\ db' = Append(db, [link |-> tabs[cur], title |-> "Bolt",
                                    data |-> product_data])
               /\ ppc' = "done"
               /\ IF "Bolt" \notin Range(things_to_skip)
                  THEN AppendAndSave("Bolt")
                  ELSE NoAppend
               /\ UNCHANGED <<storeFaults, exc>>
    /\ UNCHANGED <<tabVars, driver, stack, attempt, leaves, slept, typRuns,
                   typBase, failedCover, rtVars, tableVars, found,
                   table_elements, table_idx, product_data>>

NextProduct ==
    \/ ProductFindTables
    \/ ProductTable
    \/ ProductInsert

SpecProduct == InitProduct /\ [][NextProduct]_vars

\* C27: when the record is handed to the store its table-result sequence
\* has one entry per table found, in document order, the error marker for a
\* table whose extraction raised and the extracted rows for every other; it
\* is exactly the info sentinel when no table was found; the handler
\* reaches the insert in each of these cases and the record the store
\* accepts carries that sequence.
C27_OneResultPerTable ==
    /\ ppc \in {"insert", "done", "raised"} =>
          /\ found = "found" =>
                /\ Len(product_data) = Len(table_elements)
                /\ \A n \in DOMAIN table_elements :
                      product_data[n] =
                          IF table_elements[n].raises THEN ExtractionFailed
                          ELSE TableResult(
                                 extract_data_from_table_ele(table_elements[n].t))
          /\ found = "timeout" => product_data = <<NoTableData>>
    /\ ppc = "raised" => storeFaults > 0
    /\ ppc = "done" =>
          /\ Len(db) = 1
          /\ db[1].data = product_data

\* Three tables, the extraction of the second raised: the record is stored
\* with the error marker between the rows of the first and of the third.
C27_Witness ==
    /\ ppc = "done"
    /\ Len(table_elements) = 3
    /\ ~table_elements[1].raises /\ table_elements[2].raises
    /\ ~table_elements[3].raises
    /\ Len(db) = 1
    /\ db[1].data[2] = ExtractionFailed
    /\ db[1].data[1] = TableResult(extract_data_from_table_ele(WorkedExample(TRUE)))
    /\ Len(db[1].data[1].rows) = 2


(***************************************************************************)
(* The skip set over a whole crawl.                                        *)
(***************************************************************************)
\* C31: the skip list never holds a key twice: every list load_skip_list
\* can return is free of duplicates and every append is guarded by a
\* membership test on the same list.
C31_NoDuplicateKeys ==
    \A a, b \in DOMAIN things_to_skip :
        a # b => things_to_skip[a] # things_to_skip[b]

\* The crawl of the leaf Fastening/Washers has completed: the product
\* Washers appended its title, and the tile of the same title, whose unit
\* that product is, came to its append with the title already in the list.
C31_Witness ==
    /\ phase = "exited"
    /\ "Fastening/Washers" \in Range(things_to_skip)
    /\ "Washers" \in Range(things_to_skip)
    /\ \E n \in DOMAIN db : db[n] = [link |-> "P1", title |-> "Washers"]

\* C32: a tile or a product item is passed over by a skip-set hit only
\* because of itself: its title was in the list the process loaded (the
\* built-in default list or the keys of the durable file) or its own unit
\* was completed (the product page it links to has its record in the
\* store); a key added for another node of the same title does not hide it.
C32_SkippedOnlyForItself ==
    LET loadable == Range(default_list)
                    \cup UNION {Range(f.keys) : f \in InitialFiles}
                    \cup UNION {Range(l) : l \in TypesSkipLists}
    IN  /\ (Running /\ Top.fn = "typ" /\ Top.pc = "item"
              /\ Top.j <= Len(Site(Top.page).groups[Top.i].items)) =>
              LET it == Site(Top.page).groups[Top.i].items[Top.j]
              IN  (it.hasKe /\ it.title \in Range(things_to_skip)) =>
                    \/ it.title \in loadable
                    \/ \E n \in DOMAIN db : db[n].link = Site(it.href).url
        /\ (Running /\ Top.fn = "sub" /\ Top.pc = "loop"
              /\ Top.i <= Len(Site(Top.page).tiles)) =>
              LET t == Site(Top.page).tiles[Top.i]
              IN  (/\ t.complete /\ t.title \in Range(things_to_skip)
                   /\ SubKind(Site(t.href)) \in {"table", "product"}) =>
                    \/ t.title \in loadable
                    \/ \E n \in DOMAIN db : db[n].link = Site(t.href).url


(***************************************************************************)
(* Tabs.                                                                   *)
(***************************************************************************)
\* C33: a session starts with the root tab alone, and every step taken
\* while no exception is in flight, from a state where the open tabs are the
\* root tab and one tab per handler that has its unit open, leads to such a
\* state again with at most 4 tabs; the step that closes a unit's tab
\* leaves the root tab in front in run(), and the last remaining tab, the
\* handler's own, in the subcategory-index and types-index handlers.
C33_TabStackDiscipline ==
    [][/\ (phase = "main" /\ phase' = "running") =>
             tabs' = <<"HOME">> /\ cur' = 1 /\ Len(stack') = 1
       /\ (/\ Running /\ exc' = "none" /\ stack' # <<>>
           /\ Len(tabs) = 1 + Cardinality({n \in DOMAIN stack :
                  /\ stack[n].fn # "hpp"
                  /\ stack[n].pc \in {"check", "dispatch", "call", "after"}})) =>
             /\ Len(tabs') = 1 + Cardinality({n \in DOMAIN stack' :
                    /\ stack'[n].fn # "hpp"
                    /\ stack'[n].pc \in {"check", "dispatch", "call", "after"}})
             /\ Len(tabs') <= 4
             /\ (Top.fn = "run" /\ Top.pc = "after") =>
                   cur' = 1 /\ tabs'[cur'] = "HOME"
             /\ (Top.fn \in {"sub", "typ"} /\ Top.pc = "after") =>
                   cur' = Len(tabs') /\ tabs'[cur'] = Top.page]_vars

\* The types-index page Y1 is a root leaf; the tab of its second product
\* was opened, scraped and closed, and the handler is back on its own tab.
C33_Witness ==
    /\ Running /\ attempt = 1
    /\ leaves[1] = Leaf("Fastening", "Pins", "Y1")
    /\ Len(stack) = 2 /\ Top.fn = "typ" /\ Top.pc = "item"
    /\ Top.i = 1 /\ Top.j = 3
    /\ tabs = <<"HOME", "Y1">> /\ cur = 2
    /\ \E n \in DOMAIN db : db[n].link = "P3r"


(***************************************************************************)
(* The skip-list file over the life of several processes: the import of    *)
(* scraper.py loads the list, the crawl appends keys one at a time and     *)
(* saves after each, the process ends (main.py), ends with the last save   *)
(* of run_scraper(), or is killed, and the next process starts from the    *)
(* file.  The crawl itself is reduced to the keys it appends.              *)
(***************************************************************************)
\* The keys a crawl appends here: the category/subcat2 keys of the root.
RestartKeys == {SkipItemName(l) : l \in LeafPool}

\* Outcomes of the file operations of load_skip_list.
LoadOutcomes ==
    {"ok"} \cup (IF saveFaults < MaxSaveFaults THEN {"open_failed", "write_failed"} ELSE {})

InitRestart ==
    /\ things_to_skip = <<>>
    /\ file \in InitialFiles
    /\ saveFaults = 0
    /\ phase = "exited"
    /\ db = <<>> /\ storeFaults = 0
    /\ tabs = <<>> /\ cur = 0 /\ driver = 0 /\ stack = <<>> /\ exc = "none"
    /\ attempt = 0 /\ leaves = <<>> /\ slept = 0
    /\ typRuns = 0 /\ typBase = 0 /\ failedCover = {}
    /\ PureIdle

\* a new process imports the module: things_to_skip = load_skip_list()
ProcessStart ==
    /\ phase \in {"exited", "crashed"}
    /\ \E o \in LoadOutcomes :
          /\ things_to_skip' = load_skip_list(file, o)[1]
          /\ file' = load_skip_list(file, o)[2]
          /\ saveFaults' = IF o = "ok" \/ file.st = "corrupt"
                           THEN saveFaults ELSE saveFaults + 1
    /\ phase' = "running"
    /\ UNCHANGED <<storeVars, tabVars, driver, stack, exc, attempt, leaves, slept, pureVars, typRuns, typBase, failedCover>>

\* a unit is completed: things_to_skip.append(key); save_skip_list(...)
AppendKey ==
    /\ phase = "running"
    /\ \E key \in RestartKeys \ Range(things_to_skip) : AppendAndSave(key)
    /\ UNCHANGED <<storeVars, tabVars, driver, stack, exc, attempt, leaves, slept, pureVars, typRuns, typBase, failedCover>>

\* run_scraper(): finally: save_skip_list(things_to_skip)
RunScraperFinally ==
    /\ phase = "running"
    /\ \E o \in SaveOutcomes \ {"crash"} :
          /\ file' = save_skip_list(things_to_skip, file, o)
          /\ saveFaults' = IF o = "ok" THEN saveFaults ELSE saveFaults + 1
    /\ phase' = "exited"
    /\ UNCHANGED <<things_to_skip, storeVars, tabVars, driver, stack, exc, attempt, leaves, slept, pureVars, typRuns, typBase, failedCover>>

\* main.py ends: no save of its own
ProcessExit ==
    /\ phase = "running"
    /\ phase' = "exited"
    /\ UNCHANGED <<skipVars, storeVars, tabVars, driver, stack, exc, attempt, leaves, slept, pureVars, typRuns, typBase, failedCover>>

NextRestart ==
    \/ ProcessStart
    \/ AppendKey
    \/ RunScraperFinally
    \/ ProcessExit

SpecRestart == InitRestart /\ [][NextRestart]_vars

(***************************************************************************)
(* Retries and restarts.                                                   *)
(***************************************************************************)
\* C34: progress is kept across the sessions of the retry loop: the start
\* of a session leaves the skip set as the previous session left it; the
\* step that completes a unit (its handler has returned and its tab is
\* closed) leaves the unit's key in the skip set; and a product item whose
\* title is in the skip set is passed over without a tab and without an
\* insert.
C34_ProgressKeptAcrossRetries ==
    [][/\ (phase = "main" /\ phase' = "running") =>
             things_to_skip' = things_to_skip
       /\ (Running /\ Top.pc = "after" /\ Top.kind # "unknown") =>
             LET key == CASE Top.fn = "run" -> SkipItemName(leaves[Top.i])
                          [] Top.fn = "sub" -> Site(Top.page).tiles[Top.i].title
                          [] OTHER -> Site(Top.page).groups[Top.i].items[Top.j].title
             IN  key \in Range(things_to_skip')
       /\ (Running /\ Top.fn = "typ" /\ Top.pc = "item"
             /\ Top.j <= Len(Site(Top.page).groups[Top.i].items)
             /\ Site(Top.page).groups[Top.i].items[Top.j].hasKe
             /\ Site(Top.page).groups[Top.i].items[Top.j].title
                   \in Range(things_to_skip)) =>
             UNCHANGED <<tabs, cur, db>>]_vars

\* C35: the durable file never loses a key, over restarts, failed loads and
\* failed saves: every step leaves in the file every key it held before.
C35_FileNeverLosesKeys ==
    [][Range(file.keys) \subseteq Range(file'.keys)]_vars
====
